---- MODULE Spec2Model ----
(***************************************************************************)
(* Model of whisper_online_server.py: the accept loop, Connection and      *)
(* ServerProcessor.                                                        *)
(*                                                                         *)
(* Units.  Audio: the client's byte stream of a session is the sequence of *)
(* byte positions 1, 2, 3, ...; a decoded PCM_16 sample is the pair of the *)
(* two bytes it was built from.  min_chunk is kept as the product          *)
(* min_chunk * SAMPLING_RATE, a number of samples.  Time: the engine's     *)
(* timestamps are counted in ticks, TicksPerMs ticks to the millisecond,   *)
(* so that o[0] * 1000 is a number of milliseconds with a fraction and     *)
(* "%1.0f" has something to round.                                         *)
(***************************************************************************)
EXTENDS Integers, Sequences, FiniteSets, TLC

\* ---- bounds ----
MaxSessions == 2
MaxBytes == 4
MaxPacket == 4
MaxMinChunk == 2
TicksPerMs == 2

\* ---- program constants ----
BytesPerSample == 2
None == -1

EmptyLine == <<>>
NoMsg == <<"None">>

Texts == {"A", "B"}
Times == {0, 1, 3, 1700 * TicksPerMs, 1720 * TicksPerMs, 3000 * TicksPerMs}
Absent == <<None, None, "">>
Segments == {<<b, e, t>> : b \in Times, e \in Times, t \in Texts}
EngineResults == Segments \cup {Absent}

SendErrors == {"BrokenPipeError", "ConnectionResetError"}

VARIABLES pc, session, conn, min_chunk, last_line, last_end, out, a, o,
          rcvd, eof, decoded, audio, calls, sends, sent, exc

vars == <<pc, session, conn, min_chunk, last_line, last_end, out, a, o,
          rcvd, eof, decoded, audio, calls, sends, sent, exc>>

\* ---- pure helpers ----
Max(x, y) == IF x >= y THEN x ELSE y

RECURSIVE SumLen(_)
SumLen(xs) == IF xs = <<>> THEN 0 ELSE Len(Head(xs)) + SumLen(Tail(xs))

Concatenate_LastOnly(xs) == IF xs = <<>> THEN <<>> ELSE xs[Len(xs)]

RECURSIVE Concatenate(_)
Concatenate(xs) == IF xs = <<>> THEN <<>> ELSE Head(xs) \o Concatenate(Tail(xs))

\* soundfile RAW/PCM_16/mono decode of the n bytes that follow byte `first`:
\* whole 2-byte frames only, a trailing odd byte is dropped
Decode(first, n) ==
    [i \in 1..(n \div BytesPerSample) |->
        <<first + BytesPerSample * (i - 1) + 1, first + BytesPerSample * (i - 1) + 2>>]

\* "%1.0f" of a float number of milliseconds: round to nearest, ties to even
RoundMs(t) ==
    LET q == t \div TicksPerMs
        r == t % TicksPerMs
    IN  IF 2 * r < TicksPerMs THEN q
        ELSE IF 2 * r > TicksPerMs THEN q + 1
        ELSE IF q % 2 = 0 THEN q ELSE q + 1

FormatLine(beg, end, text) == <<RoundMs(beg), RoundMs(end), text>>

ClampBeg_NoClamp(beg, last) == beg

ClampBeg(beg, last) == IF last # None THEN Max(beg, last) ELSE beg

NewLastEnd_Unconditional(r, last) == r[2]

NewLastEnd_Clamped(r, last) == IF r[1] # None THEN Max(r[2], last) ELSE last

NewLastEnd(r, last) == IF r[1] # None THEN r[2] ELSE last

format_output_transcript(r, last) ==
    IF r[1] # None
    THEN FormatLine(ClampBeg(r[1], last), r[2], r[3])
    ELSE NoMsg

IsDuplicate_Never(line, last) == FALSE

IsDuplicate_Always(line, last) == TRUE

IsDuplicate(line, last) == line = last

NeedMore_OnePacket(xs, mc) == xs = <<>> /\ 0 < mc

NeedMore_Inclusive(xs, mc) == SumLen(xs) <= mc

NeedMore(xs, mc) == SumLen(xs) < mc

ReturnsNone_Never(xs) == FALSE

ReturnsNone(xs) == xs = <<>>

\* ---- state machine ----
Init ==
    /\ pc = "accept"
    /\ session = 0
    /\ conn = "none"
    /\ min_chunk \in 0..MaxMinChunk
    /\ last_line = EmptyLine
    /\ last_end = None
    /\ out = <<>>
    /\ a = <<>>
    /\ o = Absent
    /\ rcvd = 0
    /\ eof = FALSE
    /\ decoded = <<>>
    /\ audio = <<>>
    /\ calls = 0
    /\ sends = <<>>
    /\ sent = <<>>
    /\ exc = <<"", "">>

\* an accept that carries last_line and last_end over from the session before
Accept_KeepState ==
    /\ pc = "accept"
    /\ session < MaxSessions
    /\ session' = session + 1
    /\ conn' = "open"
    /\ out' = <<>>
    /\ a' = <<>>
    /\ o' = Absent
    /\ rcvd' = 0
    /\ eof' = FALSE
    /\ decoded' = <<>>
    /\ audio' = <<>>
    /\ calls' = 0
    /\ sends' = <<>>
    /\ sent' = <<>>
    /\ pc' = "receive"
    /\ UNCHANGED <<min_chunk, exc, last_line, last_end>>

\* s.accept(); Connection(conn); ServerProcessor(connection, min_chunk);
\* proc.process() up to the first receive_audio_chunk()
Accept ==
    /\ pc = "accept"
    /\ session < MaxSessions
    /\ session' = session + 1
    /\ conn' = "open"
    /\ last_line' = EmptyLine
    /\ last_end' = None
    /\ out' = <<>>
    /\ a' = <<>>
    /\ o' = Absent
    /\ rcvd' = 0
    /\ eof' = FALSE
    /\ decoded' = <<>>
    /\ audio' = <<>>
    /\ calls' = 0
    /\ sends' = <<>>
    /\ sent' = <<>>
    /\ pc' = "receive"
    /\ UNCHANGED <<min_chunk, exc>>

\* a process() that goes on reading when receive_audio_chunk returns None
Return_NoBreak(xs) ==
    IF xs = <<>>
    THEN /\ pc' = "receive"
         /\ a' = a
    ELSE /\ pc' = "insert"
         /\ a' = Concatenate(xs)

\* a process() that calls process_iter without insert_audio_chunk
Return_SkipInsert(xs) ==
    IF xs = <<>>
    THEN /\ pc' = "close"
         /\ a' = a
    ELSE /\ pc' = "iter"
         /\ a' = Concatenate(xs)

\* end of receive_audio_chunk and the test of its result in process()
Return(xs) ==
    IF ReturnsNone(xs)
    THEN /\ pc' = "close"
         /\ a' = a
    ELSE /\ pc' = "insert"
         /\ a' = Concatenate(xs)

\* one pass of the while loop: recv returns n > 0 bytes, decoded and appended
RecvPacket ==
    /\ pc = "receive"
    /\ NeedMore(out, min_chunk)
    /\ ~eof
    /\ \E n \in 1..MaxPacket :
        /\ rcvd + n <= MaxBytes
        /\ rcvd' = rcvd + n
        /\ out' = Append(out, Decode(rcvd, n))
        /\ decoded' = decoded \o Decode(rcvd, n)
    /\ UNCHANGED <<pc, session, conn, min_chunk, last_line, last_end, a, o,
                   eof, audio, calls, sends, sent, exc>>

\* recv returns b"": break, then return
RecvZero ==
    /\ pc = "receive"
    /\ NeedMore(out, min_chunk)
    /\ eof' = TRUE
    /\ Return(out)
    /\ out' = <<>>
    /\ UNCHANGED <<session, conn, min_chunk, last_line, last_end, o,
                   rcvd, audio, calls, sends, sent, exc>>
    /\ UNCHANGED decoded

\* the while condition is false: return
ChunkReady ==
    /\ pc = "receive"
    /\ ~NeedMore(out, min_chunk)
    /\ Return(out)
    /\ out' = <<>>
    /\ UNCHANGED <<session, conn, min_chunk, last_line, last_end, o,
                   rcvd, eof, audio, calls, sends, sent, exc>>
    /\ UNCHANGED decoded

\* recv or the decoder raises: nothing catches it
RecvRaise ==
    /\ pc = "receive"
    /\ NeedMore(out, min_chunk)
    /\ \E e \in {<<"recv", "ConnectionResetError">>, <<"decode", "LibsndfileError">>} :
        exc' = e
    /\ pc' = "crashed"
    /\ UNCHANGED <<session, conn, min_chunk, last_line, last_end, out, a, o,
                   rcvd, eof, audio, calls, sends, sent>>
    /\ UNCHANGED decoded

\* online_asr.insert_audio_chunk(a)
InsertAudioChunk ==
    /\ pc = "insert"
    /\ audio' = audio \o a
    /\ calls' = calls + 1
    /\ pc' = "iter"
    /\ UNCHANGED <<session, conn, min_chunk, last_line, last_end, out, a, o,
                   rcvd, eof, sends, sent, exc>>
    /\ UNCHANGED decoded

\* o = online_asr.process_iter(), the result drawn from R
ProcessIterFrom(R) ==
    /\ pc = "iter"
    /\ o' \in R
    /\ calls' = calls + 1
    /\ pc' = "send"
    /\ UNCHANGED <<session, conn, min_chunk, last_line, last_end, out, a,
                   rcvd, eof, audio, sends, sent, exc>>
    /\ UNCHANGED decoded

ProcessIter == ProcessIterFrom(EngineResults)

\* the engine raises in insert_audio_chunk or process_iter
EngineRaise ==
    /\ pc \in {"insert", "iter"}
    /\ exc' = <<pc, "EngineError">>
    /\ calls' = calls + 1
    /\ pc' = "crashed"
    /\ UNCHANGED <<session, conn, min_chunk, last_line, last_end, out, a, o,
                   rcvd, eof, audio, sends, sent>>
    /\ UNCHANGED decoded

\* line_packet.send_one_line(conn, line) that succeeds: the line, framed, is
\* on the wire (the text of a segment holds no line terminator)
send_one_line(wire, line) == Append(wire, line)

\* Connection.send(line) whose write outcome is w
Send(line, w) ==
    IF IsDuplicate(line, last_line)
    THEN /\ pc' = "receive"
         /\ UNCHANGED <<last_line, sent, exc>>
    ELSE IF w = "ok"
    THEN /\ sent' = send_one_line(sent, line)
         /\ last_line' = line
         /\ pc' = "receive"
         /\ exc' = exc
    ELSE /\ exc' = <<"send", w>>
         /\ pc' = IF w = "BrokenPipeError" THEN "close" ELSE "crashed"
         /\ UNCHANGED <<last_line, sent>>

\* try: self.send_result(o) except BrokenPipeError: break
\* (the write, when there is one, ends in one of the outcomes W)
SendResultWith(W) ==
    /\ pc = "send"
    /\ last_end' = NewLastEnd(o, last_end)
    /\ LET msg == format_output_transcript(o, last_end)
       IN  IF msg # NoMsg
           THEN /\ sends' = Append(sends, msg)
                /\ \E w \in W : Send(msg, w)
           ELSE /\ pc' = "receive"
                /\ UNCHANGED <<last_line, sends, sent, exc>>
    /\ UNCHANGED <<session, conn, min_chunk, out, a, o, rcvd, eof, audio, calls>>
    /\ UNCHANGED decoded

SendResult == SendResultWith({"ok"} \cup SendErrors)

\* conn.close()
Close ==
    /\ pc = "close"
    /\ conn' = "closed"
    /\ pc' = "accept"
    /\ UNCHANGED <<session, min_chunk, last_line, last_end, out, a, o,
                   rcvd, eof, audio, calls, sends, sent, exc>>
    /\ UNCHANGED decoded

Next ==
    \/ Accept
    \/ RecvPacket
    \/ RecvZero
    \/ ChunkReady
    \/ RecvRaise
    \/ InsertAudioChunk
    \/ ProcessIter
    \/ EngineRaise
    \/ SendResult
    \/ Close

Spec == Init /\ [][Next]_vars

\* ---- the server facing a peer that closes: reads and writes raise nothing
\* but BrokenPipeError, engine calls return; the thread keeps running ----
LiveResults ==
    {Absent, <<0, 1720 * TicksPerMs, "A">>, <<1700 * TicksPerMs, 3000 * TicksPerMs, "B">>}

PeerCloseProcessIter == ProcessIterFrom(LiveResults)

PeerCloseSendResult == SendResultWith({"ok", "BrokenPipeError"})

PeerCloseNext ==
    \/ Accept
    \/ RecvPacket
    \/ RecvZero
    \/ ChunkReady
    \/ InsertAudioChunk
    \/ PeerCloseProcessIter
    \/ PeerCloseSendResult
    \/ Close

PeerCloseSpec == Init /\ [][PeerCloseNext]_vars /\ WF_vars(PeerCloseNext)

\* ---- the server with an engine whose segments all have start <= end ----
WellFormedResults == {r \in Segments : r[1] <= r[2]} \cup {Absent}

WellFormedProcessIter == ProcessIterFrom(WellFormedResults)

WellFormedNext ==
    \/ Accept
    \/ RecvPacket
    \/ RecvZero
    \/ ChunkReady
    \/ RecvRaise
    \/ InsertAudioChunk
    \/ WellFormedProcessIter
    \/ EngineRaise
    \/ SendResult
    \/ Close

WellFormedSpec == Init /\ [][WellFormedNext]_vars

\* ======================= properties =======================

\* the start-ms and end-ms fields of a written line
StartMs(line) == line[1]
EndMs(line) == line[2]
IsSegment(r) == r[1] # None

\* C1: within a session every written line starts at or after the end-ms of
\* the line written immediately before it.
C1_NonOverlap ==
    \A i \in 1..(Len(sent) - 1) : StartMs(sent[i + 1]) >= EndMs(sent[i])

\* C1 witness: a second line was written whose start the engine had put
\* before the end of the first line, and it was clamped up to that end.
C1_Witness ==
    /\ Len(sent) = 2
    /\ IsSegment(o)
    /\ o[1] = 1700 * TicksPerMs
    /\ EndMs(sent[1]) = 3000
    /\ StartMs(sent[2]) = 3000

\* C2: a send of the line that is already last_line writes nothing and
\* leaves last_line alone, and no two consecutive written lines are equal.
C2_SendIsDuplicate ==
    /\ pc = "send"
    /\ IsSegment(o)
    /\ sends' = Append(sends, last_line)

C2_DuplicateSuppressed ==
    /\ [](\A i \in 1..(Len(sent) - 1) : sent[i + 1] # sent[i])
    /\ [][C2_SendIsDuplicate => (sent' = sent /\ last_line' = last_line)]_vars

\* C2 witness: send was called twice with the same line and one line is on
\* the wire.
C2_Witness ==
    /\ Len(sends) = 2
    /\ sends[1] = sends[2]
    /\ Len(sent) = 1
    /\ last_line = sends[2]

\* C3 (as stated): every chunk handed to the engine has at least
\* min_chunk * SAMPLING_RATE samples, wherever the peer closes.
C3_MinChunkAlways == pc = "insert" => Len(a) >= min_chunk

\* C3 (amended): a chunk handed to the engine has at least
\* min_chunk * SAMPLING_RATE samples unless its accumulation was ended by a
\* zero-byte read.
C3_MinChunkUnlessClosed == (pc = "insert" /\ ~eof) => Len(a) >= min_chunk

\* C3 witness: a chunk gathered from two reads reaches the threshold and is
\* about to be handed to the engine.
C3_Witness ==
    /\ pc = "insert"
    /\ ~eof
    /\ min_chunk = 2
    /\ rcvd = 4
    /\ Len(a) = 2
    /\ audio = <<>>

\* C4: the audio handed to the engine is the decode of the bytes received so
\* far, whatever the split of those bytes into reads.
C4_ChunkingIndependence == pc = "iter" => audio = Decode(0, rcvd)

\* C5: an absent engine result writes no line and leaves last_end and
\* last_line unchanged.
C5_AbsentNoEffect ==
    [][(pc = "send" /\ ~IsSegment(o)) =>
        (sent' = sent /\ sends' = sends /\ last_end' = last_end
            /\ last_line' = last_line)]_vars

\* C5 witness: an absent result has been handled after an earlier line was
\* written.
C5_Witness ==
    /\ pc = "receive"
    /\ o = Absent
    /\ calls = 4
    /\ last_end # None
    /\ Len(sent) = 1

\* an integer number of milliseconds nearest to t ticks
IsNearestMs(ms, t) ==
    /\ 2 * (ms * TicksPerMs - t) <= TicksPerMs
    /\ 2 * (t - ms * TicksPerMs) <= TicksPerMs

\* C6: a segment (start, end, text) is formatted as "<S> <E> <text>", E the
\* end in ms, S the start in ms for the first segment and otherwise the
\* larger of the start and the previous last_end; last_end becomes the raw
\* end.  (0.0, 1.72, "A") then (1.70, 3.00, "B") gives "0 1720 A" then
\* "1720 3000 B".
C6_Formatted(line) ==
    /\ sends' = Append(sends, line)
    /\ line[3] = o[3]
    /\ IsNearestMs(EndMs(line), o[2])
    /\ IsNearestMs(StartMs(line),
                   IF last_end = None \/ o[1] >= last_end THEN o[1] ELSE last_end)

C6_LastFormatted == IF sends' = <<>> THEN EmptyLine ELSE sends'[Len(sends')]

C6_Normalization ==
    [][(pc = "send" /\ IsSegment(o)) =>
        /\ last_end' = o[2]
        /\ C6_Formatted(C6_LastFormatted)
        /\ (last_end = None /\ o = <<0, 1720 * TicksPerMs, "A">>)
              => C6_LastFormatted = <<0, 1720, "A">>
        /\ (last_end = 1720 * TicksPerMs
                /\ o = <<1700 * TicksPerMs, 3000 * TicksPerMs, "B">>)
              => C6_LastFormatted = <<1720, 3000, "B">>]_vars

\* C6 witness: the two segments of the example have been formatted.
C6_Witness ==
    /\ sends = << <<0, 1720, "A">>, <<1720, 3000, "B">> >>
    /\ last_end = 3000 * TicksPerMs
    /\ o = <<1700 * TicksPerMs, 3000 * TicksPerMs, "B">>

\* C7: within a session last_end never decreases and the end-ms of a written
\* line is at least the end-ms of every line written before it.
C7_MonotonicEnd ==
    /\ [](\A i \in 1..Len(sent) : \A j \in i..Len(sent) :
            EndMs(sent[j]) >= EndMs(sent[i]))
    /\ [][(pc = "send" /\ last_end # None) => last_end' >= last_end]_vars

\* C8: a send that fails with a ConnectionError ends the session without
\* the error leaving process(), and the accept loop goes on.
C8_SendFailureContained ==
    (exc[1] = "send" /\ exc[2] \in SendErrors) => pc # "crashed"

\* C9: a decode failure, an engine failure or a failed socket read ends the
\* session only; the error does not leave the accept loop.
C9_ErrorContained ==
    exc[1] \in {"recv", "decode", "insert", "iter"} => pc # "crashed"

\* C10: when the first read of a session returns zero bytes the session
\* ends with no engine call and no line written.
C10_ImmediateClose ==
    (eof /\ rcvd = 0) =>
        /\ pc \in {"close", "accept"}
        /\ calls = 0
        /\ audio = <<>>
        /\ sends = <<>>
        /\ sent = <<>>

\* C10 witness: a session whose first read returned zero bytes has ended and
\* its socket is closed.
C10_Witness ==
    /\ eof
    /\ rcvd = 0
    /\ min_chunk > 0
    /\ pc = "accept"
    /\ conn = "closed"
    /\ calls = 0

\* C11: one session at a time, and the accept loop closes the socket of
\* every accepted connection once its session has ended, however it ended,
\* before it accepts again.
C11_SequentialService == pc \in {"accept", "crashed"} => conn # "open"

\* C12: a session starts with last_end absent, last_line empty and an empty
\* engine buffer; its first segment is not clamped and its first line is
\* written unless the write itself fails.
C12_FirstLine == IF sends' = <<>> THEN EmptyLine ELSE sends'[1]

C12_SessionIsolation ==
    /\ [][(pc = "accept" /\ pc' # "accept") =>
            (last_end' = None /\ last_line' = EmptyLine /\ audio' = <<>>
                /\ sent' = <<>>)]_vars
    /\ [][(pc = "send" /\ IsSegment(o) /\ sends = <<>>) =>
            /\ Len(sends') = 1
            /\ IsNearestMs(StartMs(C12_FirstLine), o[1])
            /\ \/ sent' = <<C12_FirstLine>> /\ pc' = "receive"
               \/ sent' = <<>> /\ exc'[1] = "send" /\ pc' \in {"close", "crashed"}]_vars

\* C12 witness: the session before ended on a failed write, so with last_end
\* set, and the first line of this session is written with its own start.
C12_Witness ==
    /\ session = 2
    /\ pc = "receive"
    /\ exc = <<"send", "BrokenPipeError">>
    /\ o = <<1700 * TicksPerMs, 3000 * TicksPerMs, "B">>
    /\ sent = << <<1700, 3000, "B">> >>

\* C13: the session cycles receive -> insert -> iter -> send -> receive;
\* a returned chunk is inserted once, followed by one process_iter and at
\* most one send; once closed the session reads, calls and sends no more.
C13_StateMachine ==
    /\ [][pc = "receive" =>
            /\ pc' \in {"receive", "insert", "close", "crashed"}
            /\ UNCHANGED <<calls, audio, sends, sent>>]_vars
    /\ [][pc = "insert" =>
            /\ pc' \in {"iter", "crashed"}
            /\ calls' = calls + 1
            /\ pc' = "iter" => audio' = audio \o a
            /\ UNCHANGED <<rcvd, eof, sends, sent>>]_vars
    /\ [][pc = "iter" =>
            /\ pc' \in {"send", "crashed"}
            /\ calls' = calls + 1
            /\ UNCHANGED <<rcvd, eof, audio, sends, sent>>]_vars
    /\ [][pc = "send" =>
            /\ pc' \in {"receive", "close", "crashed"}
            /\ Len(sends') <= Len(sends) + 1
            /\ Len(sent') <= Len(sent) + 1
            /\ UNCHANGED <<rcvd, eof, audio, calls>>]_vars
    /\ [][pc = "close" =>
            /\ pc' = "accept"
            /\ UNCHANGED <<rcvd, eof, audio, calls, sends, sent>>]_vars
    /\ []((pc \in {"receive", "close"}) => (calls % 2 = 0 /\ 2 * Len(sends) <= calls))

\* C13 witness: a session went twice round the cycle and is closed.
C13_Witness ==
    /\ pc = "accept"
    /\ conn = "closed"
    /\ calls = 4
    /\ Len(sends) = 2
    /\ Len(audio) = 2

\* C14: once the peer has closed (a read returned zero bytes, or a write
\* failed with a broken pipe) the session is closed and the accept loop is
\* back at accept, whether the close came at the start of an accumulation
\* cycle or in the middle of one.
C14_TerminatesOnPeerClose ==
    (eof \/ pc = "close") ~> (pc = "accept" /\ conn = "closed")

\* C14 witness: the peer closed in the middle of a cycle, three bytes in,
\* and the accept loop is back at accept with the socket closed.
C14_Witness ==
    /\ pc = "accept"
    /\ conn = "closed"
    /\ eof
    /\ rcvd = 3
    /\ min_chunk = 2
    /\ calls = 2

RECURSIVE FlattenAll(_)
FlattenAll(xs) ==
    IF Len(xs) = 0 THEN <<>>
    ELSE FlattenAll(SubSeq(xs, 1, Len(xs) - 1)) \o xs[Len(xs)]

\* C15: a close after some bytes of the cycle returns the partial audio as a
\* chunk; every decoded sample is handed to the engine once and in receive
\* order, so a session that has ended has handed over all it decoded.
C15_NoAudioLost ==
    /\ [][(pc = "receive" /\ out # <<>> /\ pc' \notin {"receive", "crashed"}) =>
            (pc' = "insert" /\ a' = FlattenAll(out))]_vars
    /\ [](pc # "crashed" =>
            FlattenAll(<<audio, IF pc = "insert" THEN a ELSE <<>> >> \o out) = decoded)
    /\ [](pc = "close" => audio = decoded)

\* C15 witness: the peer closed one sample short of the threshold and the
\* session ended with that sample handed to the engine.
C15_Witness ==
    /\ pc = "close"
    /\ eof
    /\ min_chunk = 2
    /\ decoded = << <<1, 2>> >>
    /\ audio = << <<1, 2>> >>

C16_NewLine == IF sends' = <<>> THEN EmptyLine ELSE sends'[Len(sends')]

\* C16: a send of a line other than last_line writes it once and then sets
\* last_line to it; a failed write leaves last_line alone; nothing but send
\* changes the last_line of a connection.
C16_SendNewLine ==
    /\ [][(pc = "send" /\ IsSegment(o)) =>
            /\ Len(sends') = Len(sends) + 1
            /\ C16_NewLine # last_line =>
                \/ /\ sent' = Append(sent, C16_NewLine)
                   /\ last_line' = C16_NewLine
                   /\ pc' = "receive"
                \/ /\ sent' = sent
                   /\ last_line' = last_line
                   /\ exc'[1] = "send"
                   /\ pc' \in {"close", "crashed"}]_vars
    /\ [][pc \notin {"send", "accept"} => last_line' = last_line]_vars
    /\ [](last_line = IF sent = <<>> THEN EmptyLine ELSE sent[Len(sent)])

\* C16 witness: two different lines were sent and both are on the wire.
C16_Witness ==
    /\ pc = "receive"
    /\ Len(sent) = 2
    /\ sent = sends
    /\ sent[1] # sent[2]
    /\ last_line = sent[2]

\* C17: for every min_chunk, 0 included, receive_audio_chunk returns the
\* absent result, and the session closes through it, only after a read
\* returned zero bytes.
C17_ClosedOnlyOnRealClose ==
    [][(pc = "receive" /\ pc' = "close") => eof']_vars

\* C18: no read is made once the sample total has reached the threshold, so
\* a returned chunk without its last decoded packet is below the threshold
\* and the chunk overshoots by less than one packet.
C18_NoOverBuffering ==
    /\ [][(pc = "receive" /\ Len(FlattenAll(out)) >= min_chunk) =>
            (rcvd' = rcvd /\ eof' = eof /\ decoded' = decoded)]_vars
    /\ [][(pc = "receive" /\ pc' = "insert" /\ out # <<>>) =>
            /\ Len(a') - Len(out[Len(out)]) < min_chunk
            /\ Len(a') < min_chunk + MaxPacket \div BytesPerSample]_vars

\* C18 witness: a four-byte packet took the chunk one sample over a
\* threshold of one sample.
C18_Witness ==
    /\ pc = "insert"
    /\ ~eof
    /\ min_chunk = 1
    /\ Len(a) = 2

\* C19: when every engine segment has start <= end, every written line has
\* start-ms <= end-ms.
C19_WellFormedLines ==
    \A i \in 1..Len(sent) : StartMs(sent[i]) <= EndMs(sent[i])

\* C20 (as stated): last_end is absent while no line is written and
\* otherwise is the end-ms of the most recent line written.
C20_TracksWritten ==
    IF sent = <<>>
    THEN last_end = None
    ELSE last_end # None /\ IsNearestMs(EndMs(sent[Len(sent)]), last_end)

\* C20 (amended): last_end is absent while no segment is formatted and
\* otherwise is the end of the most recent segment formatted, which rounds
\* to the end-ms of the most recent line passed to send; while no write has
\* failed that is also the end-ms of the most recent line written.
C20_TracksFormatted ==
    /\ IF sends = <<>>
       THEN last_end = None
       ELSE last_end # None /\ IsNearestMs(EndMs(sends[Len(sends)]), last_end)
    /\ pc \in {"receive", "insert", "iter", "send"} => C20_TracksWritten

\* C20 witness: the first write of a session failed and last_end is the end
\* of the segment that was not written.
C20_Witness ==
    /\ pc = "close"
    /\ sent = <<>>
    /\ Len(sends) = 1
    /\ last_end = 1720 * TicksPerMs

====
